---- MODULE Spec2Model ----
(***************************************************************************)
(* Guidance subsystem of the AR navigation client: the path arrow          *)
(* (ARPathNavigationArrow), the marker arrow (ARNavigationArrow), the      *)
(* closest-point resolver and the target list handling of main.js.         *)
(*                                                                         *)
(* Numbers.  Longitude and latitude are integers on a local grid whose     *)
(* step is one metre in both directions; a great-circle distance between   *)
(* grid points is the planar distance of the grid (the small-distance      *)
(* form of the haversine formula).  A point produced by a projection has   *)
(* rational coordinates and is kept as numerators over the denominator     *)
(* den; a distance is kept exactly as sqrt(sq)/den.  Angles are whole      *)
(* degrees, clock values are milliseconds.                                 *)
(***************************************************************************)
EXTENDS Integers, Sequences, FiniteSets, TLC

----------------------------------------------------------------------------
(* Bounds of the model *)

StartTime == 1000          \* Date.now() when the page is loaded
ShortTick == 25            \* a short passage of time, below updateThreshold
LongTick == 500            \* a long passage of time
MaxShortTicks == 3         \* short passages per long one
MaxLongTicks == 1          \* long passages

----------------------------------------------------------------------------
(* Program constants *)

updateThreshold == 50
angleThreshold == 2
distanceCheckThreshold == 500
hideDistance == 20
hysteresisMargin == 5

----------------------------------------------------------------------------
(* Values *)

Abs(x) == IF x < 0 THEN -x ELSE x
Max(a, b) == IF a >= b THEN a ELSE b
Min(a, b) == IF a <= b THEN a ELSE b

\* currentCoords = { latitude: null, longitude: null }
NullCoords == [isNull |-> TRUE, longitude |-> 0, latitude |-> 0]
Coords(lon, lat) == [isNull |-> FALSE, longitude |-> lon, latitude |-> lat]

\* a distance sqrt(sq)/den in metres, or Infinity
Infinity == [inf |-> TRUE, sq |-> 0, den |-> 1]
Dist(sq, den) == [inf |-> FALSE, sq |-> sq, den |-> den]

\* a < b on distances
DistLess(a, b) ==
    IF a.inf THEN FALSE
    ELSE IF b.inf THEN TRUE
    ELSE a.sq * b.den * b.den < b.sq * a.den * a.den

\* distance < m and distance > m for a whole number of metres m
DistBelow(a, m) == ~a.inf /\ a.sq < m * m * a.den * a.den
DistAbove(a, m) == a.inf \/ a.sq > m * m * a.den * a.den

\* a path object; a missing object or a missing coordinate list is a flag
NullPath == [isNull |-> TRUE, hasCoords |-> FALSE, wgs84Coords |-> <<>>, distance |-> 0]
Path(coords, total) == [isNull |-> FALSE, hasCoords |-> TRUE, wgs84Coords |-> coords, distance |-> total]
PathNoCoords == [isNull |-> FALSE, hasCoords |-> FALSE, wgs84Coords |-> <<>>, distance |-> 0]

NullPoint == [isNull |-> TRUE, longitude |-> 0, latitude |-> 0, den |-> 1,
              index |-> -1, distance |-> Infinity]

----------------------------------------------------------------------------
(* ARPathNavigationArrow: geometry *)

\* closestPointOnSegment(point, lineStart, lineEnd): the clamped projection,
\* as numerators over den = length2 (den = 1 for a segment that is a point)
closestPointOnSegment_Unclamped(point, lineStart, lineEnd) ==
    LET dx == lineEnd[1] - lineStart[1]
        dy == lineEnd[2] - lineStart[2]
        length2 == dx * dx + dy * dy
        dot == (point.longitude - lineStart[1]) * dx + (point.latitude - lineStart[2]) * dy
    IN  IF length2 = 0
        THEN [longitude |-> lineStart[1], latitude |-> lineStart[2], den |-> 1]
        ELSE [longitude |-> lineStart[1] * length2 + dot * dx,
              latitude |-> lineStart[2] * length2 + dot * dy,
              den |-> length2]

closestPointOnSegment_Swapped(point, lineStart, lineEnd) ==
    LET dx == lineEnd[1] - lineStart[1]
        dy == lineEnd[2] - lineStart[2]
        length2 == dx * dx + dy * dy
        dot == (point.longitude - lineStart[1]) * dx + (point.latitude - lineStart[2]) * dy
        t == Max(0, Min(length2, dot))
    IN  IF length2 = 0
        THEN [longitude |-> lineStart[2], latitude |-> lineStart[1], den |-> 1]
        ELSE [longitude |-> lineStart[2] * length2 + t * dy,
              latitude |-> lineStart[1] * length2 + t * dx,
              den |-> length2]

closestPointOnSegment(point, lineStart, lineEnd) ==
    LET dx == lineEnd[1] - lineStart[1]
        dy == lineEnd[2] - lineStart[2]
        length2 == dx * dx + dy * dy
        dot == (point.longitude - lineStart[1]) * dx + (point.latitude - lineStart[2]) * dy
        t == Max(0, Min(length2, dot))     \* t * length2, clamped to [0, length2]
    IN  IF length2 = 0
        THEN [longitude |-> lineStart[1], latitude |-> lineStart[2], den |-> 1]
        ELSE [longitude |-> lineStart[1] * length2 + t * dx,
              latitude |-> lineStart[2] * length2 + t * dy,
              den |-> length2]

\* haversineDistance between the user position and a projected point
haversineDistance(point, closest) ==
    LET dLon == point.longitude * closest.den - closest.longitude
        dLat == point.latitude * closest.den - closest.latitude
    IN  Dist(dLat * dLat + dLon * dLon, closest.den)

\* the loop of findClosestPointOnPath over the segments i .. length - 1,
\* carrying {minDistance, closestPoint, closestIndex} in best
RECURSIVE ClosestLoop_OneBased(_, _, _, _)
ClosestLoop_OneBased(userPosition, coords, i, best) ==
    IF ~(i < Len(coords))
    THEN best
    ELSE LET closest == closestPointOnSegment(userPosition, coords[i], coords[i + 1])
             distance == haversineDistance(userPosition, closest)
         IN  IF DistLess(distance, best.distance)
             THEN ClosestLoop_OneBased(userPosition, coords, i + 1,
                      [isNull |-> FALSE, longitude |-> closest.longitude,
                       latitude |-> closest.latitude, den |-> closest.den,
                       index |-> i, distance |-> distance])
             ELSE ClosestLoop_OneBased(userPosition, coords, i + 1, best)

RECURSIVE ClosestLoop_LastWins(_, _, _, _)
ClosestLoop_LastWins(userPosition, coords, i, best) ==
    IF ~(i < Len(coords))
    THEN best
    ELSE LET closest == closestPointOnSegment(userPosition, coords[i], coords[i + 1])
             distance == haversineDistance(userPosition, closest)
         IN  IF ~DistLess(best.distance, distance)
             THEN ClosestLoop_LastWins(userPosition, coords, i + 1,
                      [isNull |-> FALSE, longitude |-> closest.longitude,
                       latitude |-> closest.latitude, den |-> closest.den,
                       index |-> i - 1, distance |-> distance])
             ELSE ClosestLoop_LastWins(userPosition, coords, i + 1, best)

RECURSIVE ClosestLoop(_, _, _, _)
ClosestLoop(userPosition, coords, i, best) ==
    IF ~(i < Len(coords))
    THEN best
    ELSE LET closest == closestPointOnSegment(userPosition, coords[i], coords[i + 1])
             distance == haversineDistance(userPosition, closest)
         IN  IF DistLess(distance, best.distance)
             THEN ClosestLoop(userPosition, coords, i + 1,
                      [isNull |-> FALSE, longitude |-> closest.longitude,
                       latitude |-> closest.latitude, den |-> closest.den,
                       index |-> i - 1, distance |-> distance])
             ELSE ClosestLoop(userPosition, coords, i + 1, best)

\* findClosestPointOnPath(userPosition, path); segment indices count from 0
findClosestPointOnPath_SinglePoint(userPosition, path) ==
    IF path.isNull \/ ~path.hasCoords \/ Len(path.wgs84Coords) = 0
    THEN NullPoint
    ELSE IF Len(path.wgs84Coords) = 1
    THEN [isNull |-> FALSE, longitude |-> path.wgs84Coords[1][1],
          latitude |-> path.wgs84Coords[1][2], den |-> 1, index |-> 0,
          distance |-> haversineDistance(userPosition,
                          [longitude |-> path.wgs84Coords[1][1],
                           latitude |-> path.wgs84Coords[1][2], den |-> 1])]
    ELSE ClosestLoop(userPosition, path.wgs84Coords, 1, NullPoint)

findClosestPointOnPath(userPosition, path) ==
    IF path.isNull \/ ~path.hasCoords \/ Len(path.wgs84Coords) = 0
    THEN NullPoint
    ELSE ClosestLoop(userPosition, path.wgs84Coords, 1, NullPoint)

----------------------------------------------------------------------------
(* Angles *)

\* the JavaScript remainder a % n for n > 0: the sign follows the dividend
JsRem(a, n) == IF a >= 0 THEN a % n ELSE -((-a) % n)

\* Math.atan2(y, x) in degrees, on the eight principal directions
Atan2Deg(y, x) ==
    CASE y = 0 /\ x >= 0 -> 0
      [] y = 0 /\ x < 0 -> 180
      [] x = 0 /\ y > 0 -> 90
      [] x = 0 /\ y < 0 -> -90
      [] x > 0 /\ y = x -> 45
      [] x > 0 /\ y = -x -> -45
      [] x < 0 /\ y = -x -> 135
      [] x < 0 /\ y = x -> -135

\* locar.lonLatToWorldCoords: east is +x, north is -z
lonLatToWorldCoords(lon, lat) == <<lon, -lat>>

\* targetAngle = atan2(toTarget.x, toTarget.z) from the user to the point
\* (tLon, tLat)/den
TargetAngle(user, tLon, tLat, den) ==
    LET t == lonLatToWorldCoords(tLon, tLat)
        u == lonLatToWorldCoords(user.longitude * den, user.latitude * den)
    IN  Atan2Deg(t[1] - u[1], t[2] - u[2])

\* relativeAngle = ((targetAngle - userHeading + PI) % (2 * PI)) - PI, in degrees
RelativeAngleDeg(targetAngle, heading) ==
    JsRem((targetAngle - heading) + 180, 360) - 180

----------------------------------------------------------------------------
(* Inputs *)

\* the loaded route: three collinear points, ending at (0, 2)
RoutePath == Path(<< <<0, 6>>, <<0, 4>>, <<0, 2>> >>, 4)
\* a route file with a single coordinate
PointPath == Path(<< <<0, 2>> >>, 0)

\* GPS fixes east of the end of the route, at 19 .. 26 m from it
PathFixes == { Coords(x, 2) : x \in {19, 20, 21, 25, 26} }

\* camera headings (atan2 results)
Headings == {-93, -92, -90, 135}

----------------------------------------------------------------------------
(* State *)

VARIABLES
    now,              \* Date.now()
    userHeading,      \* heading of the camera's forward vector, degrees
    currentCoords,    \* main.js currentCoords, shared with both arrows
    pathManager,      \* main.js pathManager: [exists, paths]
    activePathIndex,  \* main.js activePathIndex
    pathArrow,        \* the ARPathNavigationArrow object
    closestCall,      \* the last call of findClosestPointOnPath: [called, path, point]
    arrow,            \* main.js arrow: the ARNavigationArrow object, once created
    targetCoords,     \* main.js targetCoords
    markers,          \* main.js markers: the TargetMarker objects
    indexActive,      \* main.js indexActive
    arStarted,        \* init() has run: locar, camera, listeners and render loop
    rescueChecked,    \* the state of the toggleRescuePoints checkbox
    overlayText,      \* distanceOverlay.innerText / innerHTML: [arrow, lines]
    distanceMode,     \* main.js distanceMode: "distance", "minutes" or "both"
    measured,         \* the last measurement with the distance functions
    evaluatedAt,      \* when update() of the path arrow last computed an angle, or 0
    mapView,          \* mapView.js: whether the map exists, and the index of
                      \* each feature of targetMarkers
    lastRun           \* what ran last, "animate", "gpsupdate" or something
                      \* other, and the exception it ended with

vars == <<now, userHeading, currentCoords, pathManager, activePathIndex, pathArrow,
          closestCall,
          arrow, targetCoords, markers, indexActive, arStarted, rescueChecked,
          overlayText, distanceMode, measured, evaluatedAt, mapView, lastRun>>

pathVars == <<now, userHeading, currentCoords, pathManager, activePathIndex, pathArrow>>
mainVars == <<closestCall, arrow, targetCoords, markers, indexActive, arStarted, rescueChecked,
              overlayText, lastRun>>

NoPathManager == [exists |-> FALSE, paths |-> <<>>]
PathManagerWith(paths) == [exists |-> TRUE, paths |-> paths]

\* new ARPathNavigationArrow(...): arrowObject is null until the model is loaded
NewPathArrow ==
    [arrowObject |-> FALSE, visible |-> FALSE, rotation |-> 0,
     lastUpdate |-> 0, lastAngle |-> 0,
     lastDistanceCheck |-> 0, isHiddenByDistance |-> FALSE,
     lastKnownDistance |-> Infinity]

\* main.js arrow before addArrow(), and new ARNavigationArrow(...)
NoArrow ==
    [exists |-> FALSE, arrowObject |-> FALSE, rotation |-> 0,
     lastUpdate |-> 0, lastAngle |-> 0, updateThreshold |-> 50, angleThreshold |-> 2]
\* new MapView(...): the map is created at the first click on mapToggle
NoMap == [map |-> FALSE, targetMarkers |-> <<>>]

NewArrow == [NoArrow EXCEPT !.exists = TRUE]

\* the empty distance overlay, and a text "<value> m" or "<value / 10> km"
\* a number with its unit as the overlay prints it: `${whole}${sep}${tenth} ${unit}`,
\* where a number without decimals has sep = ""
Figure(whole, sep, tenth, unit) == [whole |-> whole, sep |-> sep, tenth |-> tenth, unit |-> unit]

\* the overlay's text: lines joined by <br>, each line figures joined by " / ",
\* the first line behind an arrow sign if arrow is set
NoText == [arrow |-> FALSE, lines |-> <<>>]
Text(sign, lines) == [arrow |-> sign, lines |-> lines]

Ran(handler, error) == [handler |-> handler, error |-> error]

\* no call of findClosestPointOnPath yet, and a call with its result
\* a measurement: the distance from a to b and back with computeDistance and
\* with haversineDistance, and the distance from a to the path with
\* getDistanceToPath
NoMeasure ==
    [called |-> "", a |-> NullCoords, b |-> NullCoords, path |-> NullPath,
     there |-> <<>>, back |-> <<>>, toPath |-> Infinity]

NoCall == [called |-> FALSE, userPosition |-> NullCoords, path |-> NullPath,
           point |-> NullPoint]
Called(userPosition, path, point) ==
    [called |-> TRUE, userPosition |-> userPosition, path |-> path, point |-> point]

----------------------------------------------------------------------------
(* ARPathNavigationArrow *)

\* paths?.[activeIndex] of the path manager the arrow reads
ActivePathOf(pm, activeIndex) ==
    IF pm.exists /\ activeIndex >= 0 /\ activeIndex < Len(pm.paths)
    THEN pm.paths[activeIndex + 1]
    ELSE NullPath

\* isPathActive()
isPathActive(pm, activeIndex) ==
    activeIndex >= 0 /\ pm.exists /\ Len(pm.paths) > activeIndex

\* the hysteresis of checkDistanceVisibility(): isHiddenByDistance after a
\* re-check that found the path at this distance
HiddenAfterCheck_NeverShown(isHidden, distance) ==
    isHidden \/ DistBelow(distance, hideDistance)

HiddenAfterCheck_HideAtThreshold(isHidden, distance) ==
    IF isHidden
    THEN ~DistAbove(distance, hideDistance + hysteresisMargin)
    ELSE ~DistAbove(distance, hideDistance)

HiddenAfterCheck_NoMargin(isHidden, distance) ==
    IF isHidden
    THEN ~DistAbove(distance, hideDistance)
    ELSE DistBelow(distance, hideDistance)

HiddenAfterCheck(isHidden, distance) ==
    LET hideThreshold == hideDistance
        showThreshold == hideDistance + hysteresisMargin
    IN  IF isHidden
        THEN IF DistAbove(distance, showThreshold) THEN FALSE ELSE isHidden
        ELSE IF DistBelow(distance, hideThreshold) THEN TRUE ELSE isHidden

\* checkDistanceVisibility(): the arrow afterwards; the value returned is
\* ~isHiddenByDistance of the result
checkDistanceVisibility_Unthrottled(pa, t, coords, pm, activeIndex) ==
    LET checked == [pa EXCEPT !.lastDistanceCheck = t]
        activePath == ActivePathOf(pm, activeIndex)
        closestPoint == findClosestPointOnPath(coords, activePath)
    IN  IF activePath.isNull \/ closestPoint.isNull
        THEN [checked EXCEPT !.isHiddenByDistance = FALSE]
        ELSE [checked EXCEPT
                 !.lastKnownDistance = closestPoint.distance,
                 !.isHiddenByDistance =
                     HiddenAfterCheck(checked.isHiddenByDistance, closestPoint.distance)]

checkDistanceVisibility(pa, t, coords, pm, activeIndex) ==
    IF t - pa.lastDistanceCheck < distanceCheckThreshold
    THEN pa
    ELSE LET checked == [pa EXCEPT !.lastDistanceCheck = t]
             activePath == ActivePathOf(pm, activeIndex)
             closestPoint == findClosestPointOnPath(coords, activePath)
         IN  IF activePath.isNull \/ closestPoint.isNull
             THEN [checked EXCEPT !.isHiddenByDistance = FALSE]
             ELSE [checked EXCEPT
                      !.lastKnownDistance = closestPoint.distance,
                      !.isHiddenByDistance =
                          HiddenAfterCheck(checked.isHiddenByDistance, closestPoint.distance)]

\* getPathDistanceInfo(): null, or {path, distanceToPath, isOnPath} where
\* distanceToPath may be null; a latitude or longitude of 0 is falsy
NullInfo ==
    [isNull |-> TRUE, path |-> NullPath, hasDistance |-> FALSE,
     distanceToPath |-> Infinity, isOnPath |-> FALSE]

getPathDistanceInfo_OnPathAtThreshold(coords, pm, activeIndex) ==
    LET activePath == ActivePathOf(pm, activeIndex)
        closestPoint == findClosestPointOnPath(coords, activePath)
    IN  IF activePath.isNull \/ coords.isNull \/ coords.latitude = 0 \/ coords.longitude = 0
        THEN NullInfo
        ELSE [isNull |-> FALSE, path |-> activePath,
              hasDistance |-> ~closestPoint.isNull,
              distanceToPath |-> closestPoint.distance,
              isOnPath |-> ~closestPoint.isNull
                           /\ ~DistAbove(closestPoint.distance, hideDistance)]

getPathDistanceInfo(coords, pm, activeIndex) ==
    LET activePath == ActivePathOf(pm, activeIndex)
        closestPoint == findClosestPointOnPath(coords, activePath)
    IN  IF activePath.isNull \/ coords.isNull \/ coords.latitude = 0 \/ coords.longitude = 0
        THEN NullInfo
        ELSE [isNull |-> FALSE, path |-> activePath,
              hasDistance |-> ~closestPoint.isNull,
              distanceToPath |-> closestPoint.distance,
              isOnPath |-> ~closestPoint.isNull
                           /\ DistBelow(closestPoint.distance, hideDistance)]

\* now - this.lastUpdate < this.updateThreshold
PathArrowThrottled_Never(pa, t) == FALSE

PathArrowThrottled(pa, t) == t - pa.lastUpdate < updateThreshold

\* the part of update() after the visibility check
PathArrowSteer(pa, t, heading, coords, pm, activeIndex) ==
    IF PathArrowThrottled(pa, t)
    THEN pa
    ELSE LET closestPoint == findClosestPointOnPath(coords, ActivePathOf(pm, activeIndex))
         IN  IF closestPoint.isNull
             THEN pa
             ELSE LET targetAngle == TargetAngle(coords, closestPoint.longitude,
                                                 closestPoint.latitude, closestPoint.den)
                      relativeAngleDeg == RelativeAngleDeg(targetAngle, heading)
                  IN  IF Abs(relativeAngleDeg - pa.lastAngle) > angleThreshold
                      THEN [pa EXCEPT !.rotation = relativeAngleDeg,
                                      !.lastAngle = relativeAngleDeg,
                                      !.lastUpdate = t]
                      ELSE pa

\* update()
PathArrowUpdate(pa, t, heading, coords, pm, activeIndex) ==
    IF ~pa.arrowObject \/ coords.isNull
    THEN pa
    ELSE IF ~isPathActive(pm, activeIndex)
    THEN pa
    ELSE LET checked == checkDistanceVisibility(pa, t, coords, pm, activeIndex)
             shouldBeVisible == ~checked.isHiddenByDistance
             shown == [checked EXCEPT !.visible = shouldBeVisible]
         IN  IF ~shouldBeVisible
             THEN shown
             ELSE PathArrowSteer(shown, t, heading, coords, pm, activeIndex)

\* update() gets as far as computing the relative angle: it returns at none
\* of its guards
PathArrowEvaluates(pa, t, coords, pm, activeIndex) ==
    /\ pa.arrowObject
    /\ ~coords.isNull
    /\ isPathActive(pm, activeIndex)
    /\ ~checkDistanceVisibility(pa, t, coords, pm, activeIndex).isHiddenByDistance
    /\ ~PathArrowThrottled(pa, t)
    /\ ~findClosestPointOnPath(coords, ActivePathOf(pm, activeIndex)).isNull

----------------------------------------------------------------------------
(* The clock *)

Elapsed == now - StartTime

\* a short time passes
TickShort ==
    /\ (Elapsed % LongTick) \div ShortTick < MaxShortTicks
    /\ now' = now + ShortTick

\* a long time passes
TickLong ==
    /\ Elapsed \div LongTick < MaxLongTicks
    /\ now' = now + LongTick

----------------------------------------------------------------------------
(* The path arrow with the objects its constructor is given: currentCoords,
   getPathManager, getActivePathIndex and the camera *)

\* main.js setActivePath(index), as far as the path arrow sees it
\* the activePathIndex it leaves
setActivePath(pm, index) ==
    IF ~pm.exists \/ index < 0 \/ index >= Len(pm.paths)
    THEN -1
    ELSE index

PA_Tick ==
    /\ TickShort \/ TickLong
    /\ UNCHANGED <<mapView, distanceMode, measured, evaluatedAt, userHeading, currentCoords, pathManager, activePathIndex, pathArrow>>
    /\ UNCHANGED mainVars

\* the loader callback of initArrow: setupArrow()
PA_ModelLoaded ==
    /\ ~pathArrow.arrowObject
    /\ pathArrow' = [pathArrow EXCEPT !.arrowObject = TRUE, !.visible = TRUE]
    /\ UNCHANGED <<now, mapView, distanceMode, measured, evaluatedAt, userHeading, currentCoords, pathManager, activePathIndex>>
    /\ UNCHANGED mainVars

\* a GPS fix is written to currentCoords
PA_Position(pos) ==
    /\ currentCoords' = pos
    /\ UNCHANGED <<now, mapView, distanceMode, measured, evaluatedAt, userHeading, pathManager, activePathIndex, pathArrow>>
    /\ UNCHANGED mainVars

\* the device turns: the camera's world quaternion changes
PA_Heading(h) ==
    /\ userHeading' = h
    /\ UNCHANGED <<now, mapView, distanceMode, measured, evaluatedAt, currentCoords, pathManager, activePathIndex, pathArrow>>
    /\ UNCHANGED mainVars

\* another path, or none, becomes the active one
PA_SetActivePath(index) ==
    /\ activePathIndex' = setActivePath(pathManager, index)
    /\ UNCHANGED <<now, mapView, distanceMode, measured, evaluatedAt, userHeading, currentCoords, pathManager, pathArrow>>
    /\ UNCHANGED mainVars

\* pathArrow.update()
PA_Update ==
    /\ pathArrow' = PathArrowUpdate(pathArrow, now, userHeading, currentCoords,
                                    pathManager, activePathIndex)
    /\ evaluatedAt' = IF PathArrowEvaluates(pathArrow, now, currentCoords,
                                            pathManager, activePathIndex)
                      THEN now
                      ELSE evaluatedAt
    /\ UNCHANGED <<now, mapView, distanceMode, measured, userHeading, currentCoords, pathManager,
                   activePathIndex>>
    /\ UNCHANGED mainVars

MainInit ==
    /\ closestCall = NoCall
    /\ arrow = NoArrow
    /\ targetCoords = <<>>
    /\ markers = <<>>
    /\ indexActive = 0
    /\ arStarted = FALSE
    /\ rescueChecked = FALSE
    /\ overlayText = NoText
    /\ distanceMode = "distance"
    /\ measured = NoMeasure
    /\ evaluatedAt = 0
    /\ mapView = NoMap
    /\ lastRun = Ran("other", "none")

PathArrowInit ==
    /\ now = StartTime
    /\ userHeading \in Headings
    /\ currentCoords = NullCoords
    /\ pathManager \in {PathManagerWith(<<RoutePath>>), PathManagerWith(<<PointPath>>)}
    /\ activePathIndex = -1
    /\ pathArrow = NewPathArrow
    /\ MainInit

PathArrowNext ==
    \/ PA_Tick
    \/ PA_ModelLoaded
    \/ \E pos \in PathFixes : PA_Position(pos)
    \/ \E h \in Headings : PA_Heading(h)
    \/ \E index \in {-1, 0} : PA_SetActivePath(index)
    \/ PA_Update

SpecPathArrow == PathArrowInit /\ [][PathArrowNext]_vars

----------------------------------------------------------------------------
(* The path arrow on a walk along the 20 m line: the distance to the route
   alternates between 19 m and 21 m *)

Fix19 == Coords(19, 2)
Fix21 == Coords(21, 2)

OscInit ==
    /\ now = StartTime
    /\ userHeading \in Headings
    /\ currentCoords \in {Fix19, Fix21}
    /\ pathManager = PathManagerWith(<<RoutePath>>)
    /\ activePathIndex = 0
    /\ pathArrow = NewPathArrow
    /\ MainInit

\* the next fix is on the other side of the 20 m line
OscMove == PA_Position(IF currentCoords = Fix19 THEN Fix21 ELSE Fix19)

OscNext ==
    \/ PA_Tick
    \/ PA_ModelLoaded
    \/ OscMove
    \/ \E h \in Headings : PA_Heading(h)
    \/ PA_Update

SpecOscillation == OscInit /\ [][OscNext]_vars

----------------------------------------------------------------------------
(* ARNavigationArrow *)

\* now - this.lastUpdate < this.updateThreshold
ArrowThrottled_AtThreshold(a, t) == t - a.lastUpdate <= a.updateThreshold

ArrowThrottled_Never(a, t) == FALSE

ArrowThrottled(a, t) == t - a.lastUpdate < a.updateThreshold

\* Math.abs(relativeAngleDeg - this.lastAngle) > this.angleThreshold
ArrowAngleChanged_AtThreshold(a, relativeAngleDeg) ==
    Abs(relativeAngleDeg - a.lastAngle) >= a.angleThreshold

ArrowAngleChanged(a, relativeAngleDeg) ==
    Abs(relativeAngleDeg - a.lastAngle) > a.angleThreshold

\* update(): targets and activeIndex are what getTargetCoords() and
\* getIndexActiveMarker() return
ArrowUpdate(a, t, heading, coords, targets, activeIndex) ==
    IF ~a.arrowObject \/ coords.isNull
    THEN a
    ELSE IF ArrowThrottled(a, t)
    THEN a
    ELSE IF Len(targets) = 0 \/ activeIndex < 0 \/ activeIndex >= Len(targets)
    THEN a
    ELSE LET target == targets[activeIndex + 1]
             targetAngle == TargetAngle(coords, target.longitude, target.latitude, 1)
             relativeAngleDeg == RelativeAngleDeg(targetAngle, heading)
         IN  IF ArrowAngleChanged(a, relativeAngleDeg)
             THEN [a EXCEPT !.rotation = relativeAngleDeg,
                            !.lastAngle = relativeAngleDeg,
                            !.lastUpdate = t]
             ELSE a

----------------------------------------------------------------------------
(* distanceOverlay *)

\* computeDistance(lat1, lon1, lat2, lon2)
computeDistance_FirstLatitudeOnly(lat1, lon1, lat2, lon2) ==
    Dist((lat2 - lat1) * (lat2 - lat1) + (lon2 - lon1) * (lon2 - lon1) * (1 + Abs(lat1)), 1)

computeDistance(lat1, lon1, lat2, lon2) ==
    Dist((lat2 - lat1) * (lat2 - lat1) + (lon2 - lon1) * (lon2 - lon1), 1)

\* Math.round(distance): the least k with distance < k + 1/2, found by
\* doubling a bound and then halving the interval
RoundsBelow(distance, k) ==
    4 * distance.sq < (2 * k + 1) * (2 * k + 1) * distance.den * distance.den

RECURSIVE RoundBound(_, _)
RoundBound(distance, k) ==
    IF RoundsBelow(distance, k) THEN k ELSE RoundBound(distance, 2 * k + 1)

RECURSIVE RoundBetween(_, _, _)
RoundBetween(distance, lo, hi) ==
    IF lo = hi
    THEN lo
    ELSE LET mid == (lo + hi) \div 2
         IN  IF RoundsBelow(distance, mid)
             THEN RoundBetween(distance, lo, mid)
             ELSE RoundBetween(distance, mid + 1, hi)

Round(distance) == RoundBetween(distance, 0, RoundBound(distance, 0))

\* (distance / 1000).toFixed(1), in tenths of a kilometre
RECURSIVE KmTenthsFrom(_, _)
KmTenthsFrom(distance, k) ==
    IF distance.sq < (2 * k + 1) * (2 * k + 1) * 2500 * distance.den * distance.den
    THEN k
    ELSE KmTenthsFrom(distance, k + 1)

KmTenths(distance) == KmTenthsFrom(distance, 0)

\* km.toFixed(1): the number of kilometres with one decimal behind a point
toFixed1(distance) ==
    Figure(KmTenths(distance) \div 10, ".", KmTenths(distance) % 10, "")

\* .replace('.', ',')
ReplaceDot(figure) == [figure EXCEPT !.sep = IF @ = "." THEN "," ELSE @]

\* distance >= 1000 ? `${km.toFixed(1).replace('.', ',')} km` : `${Math.round(distance)} m`
distString_KmAbove(distance) ==
    IF DistAbove(distance, 1000)
    THEN [ReplaceDot(toFixed1(distance)) EXCEPT !.unit = "km"]
    ELSE Figure(Round(distance), "", 0, "m")

distString(distance) ==
    IF ~DistBelow(distance, 1000)
    THEN [ReplaceDot(toFixed1(distance)) EXCEPT !.unit = "km"]
    ELSE Figure(Round(distance), "", 0, "m")

\* calculateWalkingTime(distance), with averageWalkingSpeed = 1
calculateWalkingTime_NoFloor(distance) ==
    LET timeInMinutes == Round(Dist(distance.sq, distance.den * 60))
    IN  Figure(timeInMinutes, "", 0, "min")

calculateWalkingTime(distance) ==
    LET timeInMinutes == Round(Dist(distance.sq, distance.den * 60))
    IN  IF timeInMinutes <= 1
        THEN Figure(1, "", 0, "min")
        ELSE Figure(timeInMinutes, "", 0, "min")

\* the text updateDistance() of src/src/distanceOverlay.js writes, which has
\* no display mode
DistanceText(coords, target) ==
    LET distance == computeDistance(coords.latitude, coords.longitude,
                                    target.latitude, target.longitude)
    IN  Text(FALSE, << <<distString(distance)>> >>)

\* the text updateDistance(currentCoords, targetCoords, overlay, {mode}) writes
updateDistance(coords, target, mode) ==
    LET distance == computeDistance(coords.latitude, coords.longitude,
                                    target.latitude, target.longitude)
    IN  CASE mode = "minutes" -> Text(FALSE, << <<calculateWalkingTime(distance)>> >>)
          [] mode = "both" ->
                Text(FALSE, << <<distString(distance), calculateWalkingTime(distance)>> >>)
          [] OTHER -> Text(FALSE, << <<distString(distance)>> >>)

\* the text updatePathDistance(pathInfo, overlay, {mode}) writes
updatePathDistance(pathInfo, mode) ==
    LET totalDistance == Dist(pathInfo.path.distance * pathInfo.path.distance, 1)
        totalDistanceText == distString(totalDistance)
        totalWalkingTime == calculateWalkingTime(totalDistance)
        toPathText == distString(pathInfo.distanceToPath)
        walkTime == calculateWalkingTime(pathInfo.distanceToPath)
        total == CASE mode = "minutes" -> <<totalWalkingTime>>
                   [] mode = "both" -> <<totalDistanceText, totalWalkingTime>>
                   [] OTHER -> <<totalDistanceText>>
    IN  IF pathInfo.path.isNull
        THEN NoText
        ELSE IF ~pathInfo.isOnPath /\ pathInfo.hasDistance
        THEN Text(TRUE, << CASE mode = "minutes" -> <<walkTime>>
                             [] mode = "both" -> <<toPathText, walkTime>>
                             [] OTHER -> <<toPathText>>,
                           total >>)
        ELSE Text(FALSE, <<total>>)

----------------------------------------------------------------------------
(* PathManager *)

\* PathManager.haversineDistance(point1, point2) for points <<lon, lat, den>>
\* that stand for [lon / den, lat / den]
PathManager_haversineDistance(point1, point2) ==
    LET dLat == point2[2] * point1[3] - point1[2] * point2[3]
        dLon == point2[1] * point1[3] - point1[1] * point2[3]
    IN  Dist(dLat * dLat + dLon * dLon, point1[3] * point2[3])

\* distanceToSegment(point, lineStart, lineEnd) for a point {longitude, latitude}
\* passed as [lon, lat]: the distance to the clamped projection
distanceToSegment_Unclamped(point, lineStart, lineEnd) ==
    LET dx == lineEnd[1] - lineStart[1]
        dy == lineEnd[2] - lineStart[2]
        length2 == dx * dx + dy * dy
        t == (point.longitude - lineStart[1]) * dx + (point.latitude - lineStart[2]) * dy
        projection == << lineStart[1] * length2 + t * dx,
                         lineStart[2] * length2 + t * dy, length2 >>
    IN  IF length2 = 0
        THEN PathManager_haversineDistance(<<point.longitude, point.latitude, 1>>,
                                           <<lineStart[1], lineStart[2], 1>>)
        ELSE PathManager_haversineDistance(<<point.longitude, point.latitude, 1>>,
                                           projection)

distanceToSegment(point, lineStart, lineEnd) ==
    LET dx == lineEnd[1] - lineStart[1]
        dy == lineEnd[2] - lineStart[2]
        length2 == dx * dx + dy * dy
        t == Max(0, Min(length2, (point.longitude - lineStart[1]) * dx
                                 + (point.latitude - lineStart[2]) * dy))
        projection == << lineStart[1] * length2 + t * dx,
                         lineStart[2] * length2 + t * dy, length2 >>
    IN  IF length2 = 0
        THEN PathManager_haversineDistance(<<point.longitude, point.latitude, 1>>,
                                           <<lineStart[1], lineStart[2], 1>>)
        ELSE PathManager_haversineDistance(<<point.longitude, point.latitude, 1>>,
                                           projection)

\* getDistanceToPath(position, path): the minimum over the segments from i on
RECURSIVE SegmentsDistance(_, _, _, _)
SegmentsDistance(position, coords, i, minDistance) ==
    IF i > Len(coords) - 1
    THEN minDistance
    ELSE LET distance == distanceToSegment(position, coords[i], coords[i + 1])
         IN  SegmentsDistance(position, coords, i + 1,
                              IF DistLess(distance, minDistance) THEN distance
                                                                ELSE minDistance)

getDistanceToPath(position, path) ==
    SegmentsDistance(position, path.wgs84Coords, 1, Infinity)

\* findNearestPath(position): [isNull, index, distance]
RECURSIVE NearestLoop(_, _, _, _)
NearestLoop(position, paths, k, nearest) ==
    IF k > Len(paths)
    THEN nearest
    ELSE LET distance == getDistanceToPath(position, paths[k])
         IN  NearestLoop(position, paths, k + 1,
                         IF DistLess(distance, nearest.distance)
                         THEN [isNull |-> FALSE, index |-> k - 1, distance |-> distance]
                         ELSE nearest)

findNearestPath(pm, position) ==
    NearestLoop(position, pm.paths, 1,
                [isNull |-> TRUE, index |-> -1, distance |-> Infinity])
----------------------------------------------------------------------------
(* main.js *)

MaxTargets == 3            \* longest targetCoords list
MaxTicks == 2              \* short passages of time

markerTolerance == 1       \* 0.000001 degrees: below one step of the grid
rescueTolerance == 12      \* 0.0001 degrees (11.1 m): |d| < 11.1 iff |d| < 12
autoActivateDistance == 100

Target(lon, lat, type) == [longitude |-> lon, latitude |-> lat, markerType |-> type]

\* what the user types into the coordinate fields
TargetInputs == { <<30, 2>>, <<0, 2>> }
\* the rescue points loadRescuePointsFromGPX() finds within its radius
RescuePoints == << <<45, 2>> >>
\* what the route file holds
RouteFiles == { <<RoutePath>>, <<PointPath>> }
\* camera headings the device orientation controls deliver
MainHeadings == {-92, -90, 135}
\* GPS fixes of the running application
Fixes == { Coords(19, 2), Coords(26, 2) }

\* addMarker(data, i): new TargetMarker(...) at the coordinates of data, with
\* the index its onClick closure captured
Marker(data, i) ==
    [i |-> i, red |-> FALSE, latitude |-> data.latitude, longitude |-> data.longitude]

isDuplicateMarker_Never(tc, lat, lon) == FALSE

isDuplicateMarker(tc, lat, lon) ==
    \E k \in 1..Len(tc) :
        /\ Abs(tc[k].latitude - lat) < markerTolerance
        /\ Abs(tc[k].longitude - lon) < markerTolerance

\* the markers after setActive(i) has set their images
MarkerImages(ms, i) == [k \in 1..Len(ms) |-> [ms[k] EXCEPT !.red = (k - 1 = i)]]

\* the handlers take no step once the list has reached its bound
Room == Len(targetCoords) < MaxTargets

Main_Tick ==
    /\ Elapsed \div ShortTick < MaxTicks
    /\ now' = now + ShortTick
    /\ lastRun' = Ran("other", "none")
    /\ UNCHANGED <<mapView, distanceMode, measured, evaluatedAt, userHeading, currentCoords, pathManager, activePathIndex,
                   pathArrow, closestCall>>
    /\ UNCHANGED <<arrow, targetCoords, markers, indexActive, arStarted, rescueChecked,
                   overlayText>>

\* MapView.addTargetMarker(lat, lon, title, isActive, index)
addTargetMarker(mv, index) ==
    IF ~mv.map THEN mv ELSE [mv EXCEPT !.targetMarkers = Append(@, index)]

\* removeAllTargetMarkers() and addTargetMarker(..., index) for every entry
\* of tc, as in syncAllMarkersToMap() and at the end of hideRescuePoints()
syncAllMarkersToMap(mv, tc) ==
    IF ~mv.map THEN mv ELSE [mv EXCEPT !.targetMarkers = [k \in 1..Len(tc) |-> k - 1]]

\* btnAdd click with valid input
btnAdd(lon, lat) ==
    /\ LET duplicate == isDuplicateMarker(targetCoords, lat, lon)
       IN  /\ targetCoords' = IF duplicate
                              THEN targetCoords
                              ELSE Append(targetCoords, Target(lon, lat, "target"))
           /\ mapView' = IF ~duplicate /\ arStarted
                         THEN addTargetMarker(mapView, Len(mapView.targetMarkers))
                         ELSE mapView
    /\ lastRun' = Ran("other", "none")
    /\ UNCHANGED <<now, distanceMode, measured, evaluatedAt, userHeading, currentCoords, pathManager, activePathIndex, pathArrow,
                   closestCall>>
    /\ UNCHANGED <<arrow, markers, indexActive, arStarted, rescueChecked, overlayText>>

BtnAdd(lon, lat) == Room /\ btnAdd(lon, lat)

\* btnStart click: init() and initPathNavigation()
BtnStart ==
    /\ ~arStarted
    /\ Len(targetCoords) > 0
    /\ arStarted' = TRUE
    /\ pathManager' = PathManagerWith(<<>>)
    /\ lastRun' = Ran("other", "none")
    /\ UNCHANGED <<now, mapView, distanceMode, measured, evaluatedAt, userHeading, currentCoords, activePathIndex, pathArrow,
                   closestCall>>
    /\ UNCHANGED <<arrow, targetCoords, markers, indexActive, rescueChecked, overlayText>>

\* btnLoadPaths click: the route is loaded, activated, and its end becomes a target
BtnLoadPaths(paths) ==
    /\ Room
    /\ pathManager' = PathManagerWith(paths)
    /\ activePathIndex' = setActivePath(PathManagerWith(paths), 0)
    /\ LET path == paths[1]
           last == path.wgs84Coords[Len(path.wgs84Coords)]
       IN  targetCoords' =
               IF Len(path.wgs84Coords) = 0 \/ isDuplicateMarker(targetCoords, last[2], last[1])
               THEN targetCoords
               ELSE Append(targetCoords, Target(last[1], last[2], "target"))
    /\ lastRun' = Ran("other", "none")
    /\ UNCHANGED <<now, mapView, distanceMode, measured, evaluatedAt, userHeading, currentCoords, pathArrow, closestCall>>
    /\ UNCHANGED <<arrow, markers, indexActive, arStarted, rescueChecked, overlayText>>

\* the click handler of marker number k of the scene
TapMarker(k) ==
    /\ arStarted
    /\ k \in 1..Len(markers)
    /\ LET i == markers[k].i
       IN  IF i # indexActive
           THEN /\ indexActive' = i
                /\ markers' = MarkerImages(markers, i)
           ELSE UNCHANGED <<indexActive, markers>>
    /\ lastRun' = Ran("other", "none")
    /\ UNCHANGED <<now, mapView, distanceMode, measured, evaluatedAt, userHeading, currentCoords, pathManager, activePathIndex, pathArrow,
                   closestCall>>
    /\ UNCHANGED <<arrow, targetCoords, arStarted, rescueChecked, overlayText>>

\* the loader callback of arrow.initArrow()
ArrowModelLoaded ==
    /\ arrow.exists
    /\ ~arrow.arrowObject
    /\ arrow' = [arrow EXCEPT !.arrowObject = TRUE]
    /\ lastRun' = Ran("other", "none")
    /\ UNCHANGED <<now, mapView, distanceMode, measured, evaluatedAt, userHeading, currentCoords, pathManager, activePathIndex, pathArrow,
                   closestCall>>
    /\ UNCHANGED <<targetCoords, markers, indexActive, arStarted, rescueChecked, overlayText>>

\* loadAndShowRescuePoints(): targetCoords and markers after the rescue
\* points from number k on have been added
RECURSIVE AddRescuePoints(_, _, _, _, _)
AddRescuePoints(tc, ms, mv, points, k) ==
    IF k > Len(points)
    THEN <<tc, ms, mv>>
    ELSE LET lon == points[k][1]
             lat == points[k][2]
             isDuplicate == \E j \in 1..Len(tc) :
                                /\ Abs(tc[j].latitude - lat) < rescueTolerance
                                /\ Abs(tc[j].longitude - lon) < rescueTolerance
             newIndex == Len(tc)
         IN  IF isDuplicate
             THEN AddRescuePoints(tc, ms, mv, points, k + 1)
             ELSE AddRescuePoints(Append(tc, Target(lon, lat, "rescue")),
                                  IF arStarted
                                  THEN Append(ms, Marker(Target(lon, lat, "rescue"), newIndex))
                                  ELSE ms,
                                  IF arStarted THEN addTargetMarker(mv, newIndex) ELSE mv,
                                  points, k + 1)

loadAndShowRescuePoints ==
    IF currentCoords.isNull \/ currentCoords.latitude = 0 \/ currentCoords.longitude = 0
    THEN UNCHANGED <<pathManager, targetCoords, markers, mapView>>
    ELSE LET added == AddRescuePoints(targetCoords, markers, mapView, RescuePoints, 1)
         IN  /\ pathManager' = IF pathManager.exists THEN pathManager
                                                     ELSE PathManagerWith(<<>>)
             /\ targetCoords' = added[1]
             /\ markers' = added[2]
             /\ mapView' = added[3]

\* markers.splice(index, 1)
RemoveAt(ms, k) == [j \in 1..(Len(ms) - 1) |-> IF j < k THEN ms[j] ELSE ms[j + 1]]

\* hideRescuePoints(): the markers after those at the rescue indices of tc,
\* from index k - 1 downwards, have been spliced out
RECURSIVE SpliceRescue(_, _, _)
SpliceRescue(ms, tc, k) ==
    IF k = 0
    THEN ms
    ELSE SpliceRescue(IF tc[k].markerType = "rescue" /\ k <= Len(ms)
                      THEN RemoveAt(ms, k) ELSE ms,
                      tc, k - 1)

hideRescuePoints ==
    LET rescueIndices == { k - 1 : k \in { j \in 1..Len(targetCoords) :
                                              targetCoords[j].markerType = "rescue" } }
        remaining == SelectSeq(targetCoords, LAMBDA c : c.markerType # "rescue")
        removedCount == Len(targetCoords) - Len(remaining)
        spliced == SpliceRescue(markers, targetCoords, Len(targetCoords))
    IN  /\ targetCoords' = remaining
        /\ mapView' = IF removedCount > 0 /\ arStarted
                      THEN syncAllMarkersToMap(mapView, remaining)
                      ELSE mapView
        /\ IF removedCount > 0 /\ indexActive \in rescueIndices
           THEN IF Len(remaining) > 0
                THEN /\ indexActive' = 0
                     /\ markers' = MarkerImages(spliced, 0)
                ELSE /\ indexActive' = -1
                     /\ markers' = spliced
           ELSE IF removedCount > 0 /\ indexActive >= Len(remaining) /\ Len(remaining) > 0
           THEN /\ indexActive' = Len(remaining) - 1
                /\ markers' = MarkerImages(spliced, Len(remaining) - 1)
           ELSE /\ indexActive' = indexActive
                /\ markers' = spliced
        /\ UNCHANGED pathManager

\* change of the toggleRescuePoints checkbox
ToggleRescuePoints ==
    /\ rescueChecked' = ~rescueChecked
    /\ IF ~rescueChecked
       THEN /\ Room
            /\ loadAndShowRescuePoints
            /\ UNCHANGED indexActive
       ELSE hideRescuePoints
    /\ lastRun' = Ran("other", "none")
    /\ UNCHANGED <<now, distanceMode, measured, evaluatedAt, userHeading, currentCoords, activePathIndex, pathArrow,
                   closestCall>>
    /\ UNCHANGED <<arrow, arStarted, overlayText>>

AllMarkers_None(tc) == <<>>

\* the markers addAllMarkers() creates
AllMarkers(tc) == [k \in 1..Len(tc) |-> Marker(tc[k], k - 1)]

\* onGpsUpdate(e)
OnGpsUpdate(pos) ==
    /\ arStarted
    /\ currentCoords' = pos
    /\ LET create == Len(targetCoords) > 0 /\ Len(markers) = 0
           created == IF create THEN NewArrow ELSE arrow
           active == IF create THEN 0 ELSE indexActive
           nearest == findNearestPath(pathManager, pos)
           undeclared == /\ pathManager.exists
                         /\ Len(pathManager.paths) > 0
                         /\ ~nearest.isNull
                         /\ DistBelow(nearest.distance, autoActivateDistance)
       IN  /\ markers' = IF create THEN MarkerImages(AllMarkers(targetCoords), 0)
                                   ELSE markers
           /\ indexActive' = active
           /\ mapView' = IF create THEN syncAllMarkersToMap(mapView, targetCoords)
                                   ELSE mapView
           /\ arrow' = IF created.exists
                       THEN ArrowUpdate(created, now, userHeading, pos, targetCoords, active)
                       ELSE created
           /\ lastRun' = Ran("gpsupdate", IF undeclared THEN "ReferenceError" ELSE "none")
    /\ UNCHANGED <<now, distanceMode, measured, evaluatedAt, userHeading, pathManager, activePathIndex, pathArrow,
                   closestCall>>
    /\ UNCHANGED <<targetCoords, arStarted, rescueChecked, overlayText>>

\* animate(): controls.update() brings the heading h
Animate(h) ==
    /\ arStarted
    /\ userHeading' = h
    /\ arrow' = IF arrow.exists
                THEN ArrowUpdate(arrow, now, h, currentCoords, targetCoords, indexActive)
                ELSE arrow
    /\ IF currentCoords.isNull
       THEN /\ overlayText' = overlayText
            /\ lastRun' = Ran("animate", "none")
       ELSE IF indexActive < 0 \/ indexActive >= Len(targetCoords)
       THEN /\ overlayText' = overlayText
            /\ lastRun' = Ran("animate", "TypeError")
       ELSE /\ overlayText' = DistanceText(currentCoords, targetCoords[indexActive + 1])
            /\ lastRun' = Ran("animate", "none")
    /\ UNCHANGED <<now, mapView, distanceMode, measured, evaluatedAt, currentCoords, pathManager, activePathIndex, pathArrow,
                   closestCall>>
    /\ UNCHANGED <<targetCoords, markers, indexActive, arStarted, rescueChecked>>

\* the first click on mapToggle: initializeMap() and, through
\* onMapInitialized, syncAllMarkersToMap()
MapInitialized ==
    /\ arStarted
    /\ ~mapView.map
    /\ mapView' = syncAllMarkersToMap([mapView EXCEPT !.map = TRUE], targetCoords)
    /\ lastRun' = Ran("other", "none")
    /\ UNCHANGED <<now, distanceMode, measured, evaluatedAt, userHeading, currentCoords,
                   pathManager, activePathIndex, pathArrow, closestCall>>
    /\ UNCHANGED <<arrow, targetCoords, markers, indexActive, arStarted, rescueChecked,
                   overlayText>>

\* a click on feature number k of the map: onMarkerClick(index, title)
MapTap(k) ==
    /\ arStarted
    /\ mapView.map
    /\ k \in 1..Len(mapView.targetMarkers)
    /\ LET index == mapView.targetMarkers[k]
       IN  IF index # indexActive
           THEN /\ indexActive' = index
                /\ markers' = MarkerImages(markers, index)
                /\ IF currentCoords.isNull
                   THEN /\ overlayText' = overlayText
                        /\ lastRun' = Ran("mapclick", "none")
                   ELSE IF index < 0 \/ index >= Len(targetCoords)
                   THEN /\ overlayText' = overlayText
                        /\ lastRun' = Ran("mapclick", "TypeError")
                   ELSE /\ overlayText' = DistanceText(currentCoords, targetCoords[index + 1])
                        /\ lastRun' = Ran("mapclick", "none")
           ELSE /\ lastRun' = Ran("mapclick", "none")
                /\ UNCHANGED <<indexActive, markers, overlayText>>
    /\ UNCHANGED <<now, mapView, distanceMode, measured, evaluatedAt, userHeading, currentCoords,
                   pathManager, activePathIndex, pathArrow, closestCall>>
    /\ UNCHANGED <<arrow, targetCoords, arStarted, rescueChecked>>

Init ==
    /\ now = StartTime
    /\ userHeading = -90
    /\ currentCoords = NullCoords
    /\ pathManager = NoPathManager
    /\ activePathIndex = -1
    /\ pathArrow = NewPathArrow
    /\ MainInit

Next ==
    \/ Main_Tick
    \/ \E p \in TargetInputs : BtnAdd(p[1], p[2])
    \/ BtnStart
    \/ \E paths \in RouteFiles : BtnLoadPaths(paths)
    \/ \E k \in 1..MaxTargets : TapMarker(k)
    \/ ArrowModelLoaded
    \/ ToggleRescuePoints
    \/ \E pos \in Fixes : OnGpsUpdate(pos)
    \/ \E h \in MainHeadings : Animate(h)

Spec == Init /\ [][Next]_vars

----------------------------------------------------------------------------
(* main.js with the map: targets are added, shown on the map and selected
   there while rescue points are shown and hidden *)

MaxListed == 4             \* longest targetCoords list with the map
\* (lon, lat) of the targets the user adds
MapInputs == { <<30, 2>>, <<0, 2>>, <<60, 2>> }

MapNext ==
    \/ \E p \in MapInputs : Len(targetCoords) < MaxListed /\ btnAdd(p[1], p[2])
    \/ BtnStart
    \/ MapInitialized
    \/ \E k \in 1..MaxListed : MapTap(k)
    \/ \E k \in 1..MaxListed : TapMarker(k)
    \/ ToggleRescuePoints
    \/ \E pos \in Fixes : OnGpsUpdate(pos)

SpecMap == Init /\ [][MapNext]_vars

----------------------------------------------------------------------------
(* main.js with a route file of two paths: the start of the application,
   the loading of routes and the GPS fixes *)

\* a second route, 40 m east of the first
EastPath == Path(<< <<40, 6>>, <<40, 4>>, <<40, 2>> >>, 4)
AutoRouteFiles == { <<RoutePath>>, <<RoutePath, EastPath>> }
\* fixes at 19 m from the first route, at 14 m from the second, and far from both
AutoFixes == { Coords(19, 2), Coords(26, 2), Coords(200, 2) }

AutoPathNext ==
    \/ \E p \in TargetInputs : BtnAdd(p[1], p[2])
    \/ BtnStart
    \/ \E paths \in AutoRouteFiles : BtnLoadPaths(paths)
    \/ ArrowModelLoaded
    \/ \E pos \in AutoFixes : OnGpsUpdate(pos)

SpecAutoPath == Init /\ [][AutoPathNext]_vars

----------------------------------------------------------------------------
(* findClosestPointOnPath on its own: the resolver is called with the
   position and with whatever getPathManager().paths[getActivePathIndex()]
   holds *)

\* positions around the routes
ClosestPositions == { Coords(x, y) : x \in {-1, 0, 2}, y \in {1, 3, 5} }

\* a straight route running north through A = (0, 1), B = (0, 3), C = (0, 5)
NorthPath == Path(<< <<0, 1>>, <<0, 3>>, <<0, 5>> >>, 4)
\* a route whose first segment is a point
DoubledPath == Path(<< <<0, 3>>, <<0, 3>>, <<2, 3>> >>, 2)

\* path objects: without a coordinate list, with 0, 1, 2 and 3 coordinates
ClosestPaths ==
    { PathNoCoords, Path(<<>>, 0), PointPath, Path(<< <<2, 1>> >>, 0),
      Path(<< <<0, 2>>, <<2, 2>> >>, 2), RoutePath, NorthPath, DoubledPath }

FC_Position(pos) ==
    /\ currentCoords' = pos
    /\ UNCHANGED <<now, mapView, distanceMode, measured, evaluatedAt, userHeading, pathManager, activePathIndex, pathArrow, closestCall>>
    /\ UNCHANGED <<arrow, targetCoords, markers, indexActive, arStarted, rescueChecked,
                   overlayText, lastRun>>

FC_SetActivePath(index) ==
    /\ activePathIndex' = setActivePath(pathManager, index)
    /\ UNCHANGED <<now, mapView, distanceMode, measured, evaluatedAt, userHeading, currentCoords, pathManager, pathArrow, closestCall>>
    /\ UNCHANGED <<arrow, targetCoords, markers, indexActive, arStarted, rescueChecked,
                   overlayText, lastRun>>

\* findClosestPointOnPath(this.currentCoords, paths?.[activeIndex])
FC_Call ==
    /\ LET path == ActivePathOf(pathManager, activePathIndex)
       IN  closestCall' = Called(currentCoords, path,
                                 findClosestPointOnPath(currentCoords, path))
    /\ UNCHANGED <<now, mapView, distanceMode, measured, evaluatedAt, userHeading, currentCoords, pathManager, activePathIndex, pathArrow>>
    /\ UNCHANGED <<arrow, targetCoords, markers, indexActive, arStarted, rescueChecked,
                   overlayText, lastRun>>

\* the distance between the position and the point b, measured in both
\* directions with each of the three functions
FC_Measure(b) ==
    /\ ~currentCoords.isNull
    /\ LET a == currentCoords
           ar(c) == [longitude |-> c.longitude, latitude |-> c.latitude, den |-> 1]
           pm(c) == <<c.longitude, c.latitude, 1>>
       IN  measured' =
               [NoMeasure EXCEPT
                   !.called = "distance", !.a = a, !.b = b,
                   !.there = << computeDistance(a.latitude, a.longitude,
                                                b.latitude, b.longitude),
                                PathManager_haversineDistance(pm(a), pm(b)),
                                haversineDistance(a, ar(b)) >>,
                   !.back = << computeDistance(b.latitude, b.longitude,
                                               a.latitude, a.longitude),
                               PathManager_haversineDistance(pm(b), pm(a)),
                               haversineDistance(b, ar(a)) >>]
    /\ UNCHANGED <<now, mapView, distanceMode, evaluatedAt, userHeading, currentCoords, pathManager,
                   activePathIndex, pathArrow, closestCall>>
    /\ UNCHANGED <<arrow, targetCoords, markers, indexActive, arStarted, rescueChecked,
                   overlayText, lastRun>>

\* getDistanceToPath(position, path) for the position and the active path
FC_DistanceToPath ==
    /\ ~currentCoords.isNull
    /\ LET path == ActivePathOf(pathManager, activePathIndex)
       IN  /\ path.hasCoords
           /\ measured' = [NoMeasure EXCEPT
                              !.called = "toPath", !.a = currentCoords, !.path = path,
                              !.toPath = getDistanceToPath(currentCoords, path)]
    /\ UNCHANGED <<now, mapView, distanceMode, evaluatedAt, userHeading, currentCoords, pathManager,
                   activePathIndex, pathArrow, closestCall>>
    /\ UNCHANGED <<arrow, targetCoords, markers, indexActive, arStarted, rescueChecked,
                   overlayText, lastRun>>

ClosestInit ==
    /\ now = StartTime
    /\ userHeading = -90
    /\ currentCoords \in ClosestPositions
    /\ pathManager \in { PathManagerWith(<<path>>) : path \in ClosestPaths }
    /\ activePathIndex = -1
    /\ pathArrow = NewPathArrow
    /\ MainInit

ClosestNext ==
    \/ \E pos \in ClosestPositions : FC_Position(pos)
    \/ \E index \in {-1, 0} : FC_SetActivePath(index)
    \/ FC_Call

SpecClosest == ClosestInit /\ [][ClosestNext]_vars

\* the distance functions at one position: the resolver, getDistanceToPath
\* and the point-to-point distances
DistanceNext ==
    \/ \E index \in {-1, 0} : FC_SetActivePath(index)
    \/ FC_Call
    \/ \E b \in ClosestPositions : FC_Measure(b)
    \/ FC_DistanceToPath

SpecDistance == ClosestInit /\ [][DistanceNext]_vars

----------------------------------------------------------------------------
(* The distance overlay on its own: positions around one target and one
   path, in each display mode *)

OverlayTarget == Target(10, 2, "target")

OverlayPositions ==
    {NullCoords, Coords(50, 1001), Coords(0, 21)}
        \cup { Coords(10, lat) : lat \in {2, 12, 21, 22, 23, 92, 152, 1001, 1002, 1502} }

\* paths of one 1 m segment that ends at the target, with the total lengths
\* their files give, a path of a single point and a path without coordinates
OverlayPaths ==
    { Path(<< <<9, 2>>, <<10, 2>> >>, total) : total \in {1, 999, 1000, 1500} }
        \cup { Path(<< <<10, 2>> >>, 0), PathNoCoords }

OV_Position(pos) ==
    /\ currentCoords' = pos
    /\ lastRun' = Ran("other", "none")
    /\ UNCHANGED <<now, mapView, distanceMode, measured, evaluatedAt, userHeading, pathManager, activePathIndex, pathArrow,
                   closestCall>>
    /\ UNCHANGED <<arrow, targetCoords, markers, indexActive, arStarted, rescueChecked,
                   overlayText>>

OV_SetActivePath(index) ==
    /\ activePathIndex' = setActivePath(pathManager, index)
    /\ lastRun' = Ran("other", "none")
    /\ UNCHANGED <<now, mapView, distanceMode, measured, evaluatedAt, userHeading, currentCoords, pathManager, pathArrow,
                   closestCall>>
    /\ UNCHANGED <<arrow, targetCoords, markers, indexActive, arStarted, rescueChecked,
                   overlayText>>

\* the click listener of the overlay: cycle the mode and redraw at once
OverlayClick ==
    /\ distanceMode' = CASE distanceMode = "distance" -> "minutes"
                          [] distanceMode = "minutes" -> "both"
                          [] OTHER -> "distance"
    /\ IF indexActive < Len(targetCoords) /\ ~currentCoords.isNull
       THEN /\ overlayText' = updateDistance(currentCoords, targetCoords[indexActive + 1],
                                             distanceMode')
            /\ lastRun' = Ran("updateDistance", "none")
       ELSE /\ overlayText' = overlayText
            /\ lastRun' = Ran("other", "none")
    /\ UNCHANGED <<now, mapView, measured, evaluatedAt, userHeading, currentCoords, pathManager,
                   activePathIndex, pathArrow, closestCall>>
    /\ UNCHANGED <<arrow, targetCoords, markers, indexActive, arStarted, rescueChecked>>

\* updateDistance(currentCoords, targetCoords[indexActive], distanceOverlay, {mode})
OV_UpdateDistance ==
    /\ IF currentCoords.isNull
       THEN /\ overlayText' = overlayText
            /\ lastRun' = Ran("other", "none")
       ELSE /\ overlayText' = updateDistance(currentCoords, targetCoords[indexActive + 1],
                                             distanceMode)
            /\ lastRun' = Ran("updateDistance", "none")
    /\ UNCHANGED <<now, mapView, distanceMode, measured, evaluatedAt, userHeading, currentCoords, pathManager, activePathIndex,
                   pathArrow, closestCall>>
    /\ UNCHANGED <<arrow, targetCoords, markers, indexActive, arStarted, rescueChecked>>

\* updatePathDistance(getPathDistanceInfo(), distanceOverlay, {mode}) for an
\* info object that is not null
OV_UpdatePathDistance ==
    /\ LET pathInfo == getPathDistanceInfo(currentCoords, pathManager, activePathIndex)
       IN  /\ ~pathInfo.isNull
           /\ overlayText' = updatePathDistance(pathInfo, distanceMode)
    /\ lastRun' = Ran("updatePathDistance", "none")
    /\ UNCHANGED <<now, mapView, distanceMode, measured, evaluatedAt, userHeading, currentCoords, pathManager, activePathIndex,
                   pathArrow, closestCall>>
    /\ UNCHANGED <<arrow, targetCoords, markers, indexActive, arStarted, rescueChecked>>

OverlayInit ==
    /\ now = StartTime
    /\ userHeading = -90
    /\ currentCoords \in OverlayPositions
    /\ pathManager \in { PathManagerWith(<<path>>) : path \in OverlayPaths }
    /\ activePathIndex = -1
    /\ pathArrow = NewPathArrow
    /\ closestCall = NoCall
    /\ arrow = NoArrow
    /\ targetCoords = <<OverlayTarget>>
    /\ markers = <<>>
    /\ indexActive = 0
    /\ arStarted = FALSE
    /\ rescueChecked = FALSE
    /\ overlayText = NoText
    /\ distanceMode = "distance"
    /\ measured = NoMeasure
    /\ evaluatedAt = 0
    /\ mapView = NoMap
    /\ lastRun = Ran("other", "none")

OverlayNext ==
    \/ \E pos \in OverlayPositions : OV_Position(pos)
    \/ \E index \in {-1, 0} : OV_SetActivePath(index)
    \/ OverlayClick
    \/ OV_UpdateDistance
    \/ OV_UpdatePathDistance

SpecOverlay == OverlayInit /\ [][OverlayNext]_vars

----------------------------------------------------------------------------
(* Claims about the proximity hysteresis *)

\* the distance from the current position to the active path
PathDistance ==
    findClosestPointOnPath(currentCoords, ActivePathOf(pathManager, activePathIndex))

DistIs(a, m) == ~DistBelow(a, m) /\ ~DistAbove(a, m)

\* C1: on every distance re-check that is not throttled and finds the active
\* path at distance d, a visible arrow becomes hidden exactly when d < 20, a
\* hidden arrow becomes visible exactly when d > 25, and for 20 <= d <= 25 the
\* flag keeps its value.
C1_Hysteresis ==
    [][ (/\ pathArrow'.lastDistanceCheck # pathArrow.lastDistanceCheck
         /\ ~PathDistance.isNull)
        => /\ (~pathArrow.isHiddenByDistance /\ DistBelow(PathDistance.distance, 20))
                  => pathArrow'.isHiddenByDistance
           /\ (~pathArrow.isHiddenByDistance /\ ~DistBelow(PathDistance.distance, 20))
                  => ~pathArrow'.isHiddenByDistance
           /\ (pathArrow.isHiddenByDistance /\ DistAbove(PathDistance.distance, 25))
                  => ~pathArrow'.isHiddenByDistance
           /\ (pathArrow.isHiddenByDistance /\ ~DistAbove(PathDistance.distance, 25))
                  => pathArrow'.isHiddenByDistance ]_vars

\* a re-check after the first one found the path at 25 m and left the arrow hidden
C1_Witness ==
    /\ pathArrow.isHiddenByDistance
    /\ pathArrow.lastDistanceCheck = now
    /\ now > StartTime
    /\ DistIs(pathArrow.lastKnownDistance, 25)

\* C2 as stated: on the walk along the 20 m line the flag stays at its initial
\* value, false.
C2_StaysVisible == ~pathArrow.isHiddenByDistance

\* C2 as amended: on the walk along the 20 m line the flag changes at most
\* once; once the arrow is hidden (at the first 19 m sample) it stays hidden.
C2_NoOscillation ==
    [][pathArrow.isHiddenByDistance => pathArrow'.isHiddenByDistance]_vars

\* a hidden arrow was re-checked at 21 m and stayed hidden
C2_Witness ==
    /\ pathArrow.isHiddenByDistance
    /\ pathArrow.lastDistanceCheck = now
    /\ now > StartTime
    /\ DistIs(pathArrow.lastKnownDistance, 21)

----------------------------------------------------------------------------
(* Claims about the steering of the two arrows *)

\* the target getTargetCoords()[getIndexActiveMarker()] exists
TargetAvailable(tc, index) == index >= 0 /\ index < Len(tc)

\* the relative angle ARNavigationArrow.update() computes from these inputs
MarkerAngle(coords, tc, index, heading) ==
    RelativeAngleDeg(TargetAngle(coords, tc[index + 1].longitude,
                                 tc[index + 1].latitude, 1), heading)

\* the closest point ARPathNavigationArrow.update() steers to, and the
\* relative angle it computes
PathClosest == findClosestPointOnPath(currentCoords, ActivePathOf(pathManager, activePathIndex))
PathAngle ==
    RelativeAngleDeg(TargetAngle(currentCoords, PathClosest.longitude,
                                 PathClosest.latitude, PathClosest.den), userHeading)

\* this step is a render tick or a GPS event in which update() of the loaded
\* marker arrow runs with a position and an existing target
MarkerUpdateRuns ==
    /\ lastRun'.handler \in {"animate", "gpsupdate"}
    /\ arrow.arrowObject
    /\ ~currentCoords'.isNull
    /\ TargetAvailable(targetCoords', indexActive')

\* this step is update() of the loaded path arrow with a position and a
\* closest point on the active path
PathUpdateRuns ==
    /\ PA_Update
    /\ pathArrow.arrowObject
    /\ ~currentCoords.isNull
    /\ ~PathClosest.isNull

(* C3: whenever the navigation target changes - setActive(i) makes another
   marker the active one, or setActivePath(p) another path - the guidance
   state of the arrows is reset in the same step: lastAngle and lastUpdate
   are back at their initial value 0 and isHiddenByDistance is false. *)
C3_TargetSwitchResets ==
    [][(indexActive' # indexActive \/ activePathIndex' # activePathIndex)
        => /\ arrow'.lastAngle = 0 /\ arrow'.lastUpdate = 0
           /\ pathArrow'.lastAngle = 0 /\ pathArrow'.lastUpdate = 0
           /\ ~pathArrow'.isHiddenByDistance]_vars

(* C4: an update() call made less than 50 ms after the last applied update
   leaves lastAngle and the rotation unchanged, however much the computed
   angle has changed; a call made 50 ms or more after it, with a computed
   angle that differs from lastAngle by more than 2 degrees, sets lastAngle
   to the computed angle.  Stated for the marker arrow and for the path
   arrow (when it is not hidden by distance). *)
C4_ThrottleSuppressesChurn ==
    [][/\ MarkerUpdateRuns =>
            LET angle == MarkerAngle(currentCoords', targetCoords', indexActive', userHeading')
            IN  /\ now - arrow.lastUpdate < 50
                    => arrow'.lastAngle = arrow.lastAngle /\ arrow'.rotation = arrow.rotation
                /\ (now - arrow.lastUpdate >= 50 /\ Abs(angle - arrow.lastAngle) > 2)
                    => arrow'.lastAngle = angle
       /\ PathUpdateRuns =>
            /\ now - pathArrow.lastUpdate < 50
                => /\ pathArrow'.lastAngle = pathArrow.lastAngle
                   /\ pathArrow'.rotation = pathArrow.rotation
            /\ (/\ now - pathArrow.lastUpdate >= 50
                /\ ~pathArrow'.isHiddenByDistance
                /\ Abs(PathAngle - pathArrow.lastAngle) > 2)
                => pathArrow'.lastAngle = PathAngle]_vars

\* a render tick has just called update() of the marker arrow less than 50 ms
\* after its last applied update, with a computed angle more than 90 degrees
\* away from lastAngle, and lastAngle has stayed
C4_Witness ==
    /\ lastRun.handler = "animate"
    /\ arrow.arrowObject
    /\ ~currentCoords.isNull
    /\ TargetAvailable(targetCoords, indexActive)
    /\ arrow.lastUpdate >= StartTime
    /\ now - arrow.lastUpdate < 50
    /\ Abs(MarkerAngle(currentCoords, targetCoords, indexActive, userHeading)
           - arrow.lastAngle) > 90

(* C5: any two steps that apply a new rotation to an arrow (steps in which
   lastAngle changes) are at least 50 ms apart: a step that changes lastAngle
   of an arrow whose lastUpdate records an earlier application happens at
   least 50 ms after that lastUpdate. *)
C5_AppliedRotationsApart ==
    [][/\ (arrow.lastUpdate > 0 /\ arrow'.lastAngle # arrow.lastAngle
            /\ arrow'.lastUpdate # 0)
           => arrow'.lastUpdate - arrow.lastUpdate >= 50
       /\ (pathArrow.lastUpdate > 0 /\ pathArrow'.lastAngle # pathArrow.lastAngle)
           => pathArrow'.lastUpdate - pathArrow.lastUpdate >= 50]_vars

\* the path arrow has applied a rotation for the second time at least, less
\* than 100 ms after the page was loaded: the first application of a new
\* arrow cannot leave lastAngle within 2 degrees of 0
C5_Witness ==
    /\ pathArrow.lastUpdate = now
    /\ now > StartTime
    /\ now - StartTime < 2 * 50
    /\ Abs(pathArrow.lastAngle) <= 2
    /\ pathArrow.rotation = pathArrow.lastAngle

(* C6: update() changes the rotation only when the computed relative angle
   differs from lastAngle by strictly more than 2 degrees; when the
   difference is 2 degrees or less, rotation, lastAngle and lastUpdate all
   stay as they were.  Stated for both arrows. *)
C6_AngleDeltaThreshold ==
    [][/\ MarkerUpdateRuns =>
            LET angle == MarkerAngle(currentCoords', targetCoords', indexActive', userHeading')
            IN  /\ arrow'.rotation # arrow.rotation => Abs(angle - arrow.lastAngle) > 2
                /\ Abs(angle - arrow.lastAngle) <= 2
                    => /\ arrow'.rotation = arrow.rotation
                       /\ arrow'.lastAngle = arrow.lastAngle
                       /\ arrow'.lastUpdate = arrow.lastUpdate
       /\ PathUpdateRuns =>
            /\ pathArrow'.rotation # pathArrow.rotation
                => Abs(PathAngle - pathArrow.lastAngle) > 2
            /\ Abs(PathAngle - pathArrow.lastAngle) <= 2
                => /\ pathArrow'.rotation = pathArrow.rotation
                   /\ pathArrow'.lastAngle = pathArrow.lastAngle
                   /\ pathArrow'.lastUpdate = pathArrow.lastUpdate]_vars

\* a render tick has just called update() of the marker arrow, not throttled,
\* with a computed angle exactly 2 degrees from lastAngle
C6_Witness ==
    /\ lastRun.handler = "animate"
    /\ arrow.arrowObject
    /\ ~currentCoords.isNull
    /\ TargetAvailable(targetCoords, indexActive)
    /\ arrow.lastUpdate >= StartTime
    /\ now - arrow.lastUpdate >= 50
    /\ Abs(MarkerAngle(currentCoords, targetCoords, indexActive, userHeading)
           - arrow.lastAngle) = 2

(* C7: the relative angle update() computes, and stores in lastAngle when it
   applies it, lies in the half-open interval (-180, 180] degrees. *)
C7_NormalizedRange ==
    /\ arrow.lastAngle > -180 /\ arrow.lastAngle <= 180
    /\ pathArrow.lastAngle > -180 /\ pathArrow.lastAngle <= 180

(* C8: in every render tick and GPS event in which the position or the
   target is unavailable (currentCoords null, no target at indexActive or
   indexActive out of range), the per-frame computations return early
   without throwing, and the arrow rotation and the overlay text stay as
   they were. *)
C8_NoOpOnMissingInput ==
    [][(/\ lastRun'.handler \in {"animate", "gpsupdate"}
        /\ \/ currentCoords'.isNull
           \/ ~TargetAvailable(targetCoords', indexActive'))
        => /\ lastRun'.error # "TypeError"
           /\ arrow'.rotation = arrow.rotation
           /\ overlayText' = overlayText]_vars

(* C9: at most one navigation target drives the guidance: while a path is
   active the marker arrow does not steer, and while no path is active the
   path arrow does not steer. *)
C9_SingleDrivingTarget ==
    [][/\ isPathActive(pathManager, activePathIndex)
           => arrow'.rotation = arrow.rotation /\ arrow'.lastAngle = arrow.lastAngle
       /\ ~isPathActive(pathManager, activePathIndex)
           => /\ pathArrow'.rotation = pathArrow.rotation
              /\ pathArrow'.lastAngle = pathArrow.lastAngle]_vars

(* C10: findClosestPointOnPath(position, path) returns null whenever the path
   is null or undefined, has no coordinate list, or has fewer than 2
   coordinates. *)
C10_NullForShortPath ==
    (/\ closestCall.called
     /\ \/ closestCall.path.isNull
        \/ ~closestCall.path.hasCoords
        \/ Len(closestCall.path.wgs84Coords) < 2)
    => closestCall.point.isNull

\* the resolver has been called with a path of exactly one coordinate
C10_Witness ==
    /\ closestCall.called
    /\ ~closestCall.path.isNull
    /\ closestCall.path.hasCoords
    /\ Len(closestCall.path.wgs84Coords) = 1
    /\ closestCall.point.isNull

----------------------------------------------------------------------------
(* Claims about the closest-point resolver *)

\* the coordinate list of the path of the last call, and its segment k
\* (counted from 0) as the pair of its end points
CallCoords == closestCall.path.wgs84Coords
CallSegment(k) == <<CallCoords[k + 1], CallCoords[k + 2]>>
CallSegments == 0..(Len(CallCoords) - 2)

\* the last call returned a point
CallFound == closestCall.called /\ ~closestCall.point.isNull

(* C11: every non-null result of findClosestPointOnPath carries a segment
   index that addresses an existing segment of the queried path:
   0 <= index < path.wgs84Coords.length - 1. *)
C11_IndexInRange ==
    CallFound =>
        /\ closestCall.point.index >= 0
        /\ closestCall.point.index < Len(CallCoords) - 1

\* a call on a path of two segments has returned the last one
C11_Witness ==
    /\ CallFound
    /\ Len(CallCoords) = 3
    /\ closestCall.point.index = Len(CallCoords) - 2

\* the distance from the position of the last call to its clamped projection
\* on segment k
CallSegmentDistance(k) ==
    haversineDistance(closestCall.userPosition,
                      closestPointOnSegment(closestCall.userPosition,
                                            CallSegment(k)[1], CallSegment(k)[2]))

SameDistance(a, b) == ~DistLess(a, b) /\ ~DistLess(b, a)

(* C12: for every position and every path with at least 2 coordinates, the
   distance findClosestPointOnPath returns is the minimum, over all segments,
   of the distance from the position to its clamped projection on the
   segment; the returned point is the projection on the returned segment;
   and the returned index is the lowest segment index that attains the
   minimum. *)
C12_GlobalMinimumStableTie ==
    (closestCall.called /\ ~closestCall.path.isNull /\ Len(CallCoords) >= 2) =>
        /\ ~closestCall.point.isNull
        /\ closestCall.point.index \in CallSegments
        /\ \A k \in CallSegments :
               ~DistLess(CallSegmentDistance(k), closestCall.point.distance)
        /\ SameDistance(closestCall.point.distance,
                        CallSegmentDistance(closestCall.point.index))
        /\ LET projection == closestPointOnSegment(closestCall.userPosition,
                                  CallSegment(closestCall.point.index)[1],
                                  CallSegment(closestCall.point.index)[2])
           IN  /\ closestCall.point.longitude = projection.longitude
               /\ closestCall.point.latitude = projection.latitude
               /\ closestCall.point.den = projection.den
        /\ \A k \in CallSegments :
               k < closestCall.point.index
                   => DistLess(closestCall.point.distance, CallSegmentDistance(k))

\* a call in which two segments attain the minimum and the first is returned
C12_Witness ==
    /\ CallFound
    /\ Len(CallCoords) = 3
    /\ SameDistance(CallSegmentDistance(0), CallSegmentDistance(1))
    /\ closestCall.point.index = 0

\* the point (longitude / den, latitude / den) lies on the closed segment
\* from lineStart to lineEnd: it is collinear with the end points and its
\* parameter along the segment is between 0 and 1
OnSegment(point, lineStart, lineEnd) ==
    LET dx == lineEnd[1] - lineStart[1]
        dy == lineEnd[2] - lineStart[2]
        px == point.longitude - lineStart[1] * point.den
        py == point.latitude - lineStart[2] * point.den
    IN  IF dx = 0 /\ dy = 0
        THEN px = 0 /\ py = 0
        ELSE /\ px * dy - py * dx = 0
             /\ px * dx + py * dy >= 0
             /\ px * dx + py * dy <= point.den * (dx * dx + dy * dy)

(* C13: closestPointOnSegment(p, s, e) returns a point s + t * (e - s) with
   0 <= t <= 1, a point of the closed segment that is never extrapolated
   beyond an end point; for a segment whose end points coincide it returns
   s.  Stated of the point every call of the resolver returns, which is the
   projection on the returned segment. *)
C13_ProjectionClamped ==
    CallFound =>
        OnSegment(closestCall.point, CallSegment(closestCall.point.index)[1],
                  CallSegment(closestCall.point.index)[2])

\* a call whose position projects before the start of the only segment of
\* the path, and which returns the start point
C13_Witness ==
    /\ CallFound
    /\ Len(CallCoords) = 2
    /\ (closestCall.userPosition.longitude - CallCoords[1][1])
            * (CallCoords[2][1] - CallCoords[1][1])
        + (closestCall.userPosition.latitude - CallCoords[1][2])
            * (CallCoords[2][2] - CallCoords[1][2]) < 0
    /\ closestCall.point.longitude = CallCoords[1][1] * closestCall.point.den
    /\ closestCall.point.latitude = CallCoords[1][2] * closestCall.point.den

(* C14: for the straight path A - B - C running north and a position due
   east of the middle vertex B, findClosestPointOnPath returns the point B
   itself, not A or C, with segment index 0 or 1. *)
C14_InteriorVertex ==
    (/\ closestCall.called
     /\ closestCall.path = NorthPath
     /\ closestCall.userPosition.latitude = NorthPath.wgs84Coords[2][2]
     /\ closestCall.userPosition.longitude > NorthPath.wgs84Coords[2][1])
    => /\ ~closestCall.point.isNull
       /\ closestCall.point.longitude = NorthPath.wgs84Coords[2][1] * closestCall.point.den
       /\ closestCall.point.latitude = NorthPath.wgs84Coords[2][2] * closestCall.point.den
       /\ closestCall.point.index \in {0, 1}

\* the resolver has been called on the path A - B - C from 2 m east of B
C14_Witness ==
    /\ closestCall.called
    /\ closestCall.path = NorthPath
    /\ closestCall.userPosition = Coords(2, 3)
    /\ closestCall.point.latitude = 3 * closestCall.point.den
    /\ closestCall.point.longitude = 0

----------------------------------------------------------------------------
(* Claims about the distance overlay *)

\* the square of the distance in metres between the position and the active target
ShownDistanceSq ==
    (currentCoords.latitude - targetCoords[indexActive + 1].latitude)
        * (currentCoords.latitude - targetCoords[indexActive + 1].latitude)
    + (currentCoords.longitude - targetCoords[indexActive + 1].longitude)
        * (currentCoords.longitude - targetCoords[indexActive + 1].longitude)

\* updateDistance has just written the overlay for the current position
UpdateDistanceShown(mode) ==
    lastRun.handler = "updateDistance" /\ distanceMode = mode

\* the figure is the distance in whole metres, rounded to the nearest
IsWholeMetres(figure, sq) ==
    /\ figure.unit = "m"
    /\ figure.sep = ""
    /\ 4 * sq < (2 * figure.whole + 1) * (2 * figure.whole + 1)
    /\ figure.whole = 0 \/ 4 * sq >= (2 * figure.whole - 1) * (2 * figure.whole - 1)

\* the figure is the distance in kilometres with one decimal digit behind
\* the separator sep, rounded to the nearest
IsKilometres(figure, sq, sep) ==
    LET tenths == 10 * figure.whole + figure.tenth
    IN  /\ figure.unit = "km"
        /\ figure.sep = sep
        /\ figure.tenth \in 0 .. 9
        /\ sq < (2 * tenths + 1) * (2 * tenths + 1) * 2500
        /\ sq >= (2 * tenths - 1) * (2 * tenths - 1) * 2500

DistanceFormat(sep) ==
    LET figure == overlayText.lines[1][1]
    IN  /\ ~overlayText.arrow
        /\ Len(overlayText.lines) = 1
        /\ Len(overlayText.lines[1]) = 1
        /\ IF ShownDistanceSq >= 1000 * 1000
           THEN IsKilometres(figure, ShownDistanceSq, sep)
           ELSE IsWholeMetres(figure, ShownDistanceSq)
        /\ ShownDistanceSq = 999 * 999 => figure = Figure(999, "", 0, "m")
        /\ ShownDistanceSq = 1000 * 1000 => figure = Figure(1, sep, 0, "km")
        /\ ShownDistanceSq = 1500 * 1500 => figure = Figure(1, sep, 5, "km")

(* C15 as stated: in mode 'distance' updateDistance shows a distance of
   1000 m or more as kilometres with one decimal digit behind a decimal
   point, and a smaller one as whole metres: 999 m as "999 m", 1000 m as
   "1.0 km", 1500 m as "1.5 km". *)
C15_DecimalPoint == UpdateDistanceShown("distance") => DistanceFormat(".")

(* C15, amended: in mode 'distance' updateDistance shows a distance of 1000 m
   or more as kilometres with one decimal digit behind a decimal comma, and a
   smaller one as whole metres: 999 m as "999 m", 1000 m as "1,0 km",
   1500 m as "1,5 km". *)
C15_DecimalComma == UpdateDistanceShown("distance") => DistanceFormat(",")

\* updateDistance has shown exactly 1000 m as 1,0 km
C15_Witness ==
    /\ UpdateDistanceShown("distance")
    /\ ShownDistanceSq = 1000 * 1000
    /\ overlayText = Text(FALSE, << <<Figure(1, ",", 0, "km")>> >>)

(* C16: for every distance d >= 0, calculateWalkingTime(d) reports
   max(1, round(d / 60)) minutes, never "0 min"; 10 m gives "1 min".
   Stated of the text updateDistance writes in mode 'minutes'. *)
C16_WalkingTimeFloor ==
    UpdateDistanceShown("minutes") =>
        LET figure == overlayText.lines[1][1]
        IN  /\ Len(overlayText.lines) = 1
            /\ Len(overlayText.lines[1]) = 1
            /\ figure.unit = "min"
            /\ figure.sep = ""
            /\ figure.whole >= 1
            \* round(d / 60) <= whole, with equality above the floor
            /\ 4 * ShownDistanceSq
                   < (2 * figure.whole + 1) * (2 * figure.whole + 1) * 60 * 60
            /\ figure.whole > 1 =>
                   4 * ShownDistanceSq
                       >= (2 * figure.whole - 1) * (2 * figure.whole - 1) * 60 * 60
            /\ ShownDistanceSq = 10 * 10 => figure.whole = 1

\* the walking time to a target 10 m away has been shown as 1 min
C16_Witness ==
    /\ UpdateDistanceShown("minutes")
    /\ ShownDistanceSq = 10 * 10
    /\ overlayText = Text(FALSE, << <<Figure(1, "", 0, "min")>> >>)

\* updatePathDistance has just written the overlay for the current position
PathDistanceShown == lastRun.handler = "updatePathDistance"

\* the figure prints a distance of sqrt(sq) metres as the overlay formats it
FigureShows(figure, sq) ==
    IF sq >= 1000 * 1000
    THEN IsKilometres(figure, sq, ",")
    ELSE IsWholeMetres(figure, sq)

\* the closest point has a distance in whole or irrational metres: sqrt(sq) / 1
PathDistanceSq == PathDistance.distance.sq

\* the user is off the path: a closest point is known and it is not nearer than 20 m
OffPath == ~PathDistance.isNull /\ ~DistBelow(PathDistance.distance, 20)

(* C17: updatePathDistance shows two lines, the distance to the path behind
   an arrow sign and then the path's total length, exactly when a distance
   to the path is known and the user is off the path, and only the total
   length when the user is on the path; the user is on the path exactly
   when the closest point of the path is nearer than hideDistance = 20 m. *)
C17_PathOverlayForm ==
    PathDistanceShown =>
        LET total == ActivePathOf(pathManager, activePathIndex).distance
        IN  IF OffPath
            THEN /\ overlayText.arrow
                 /\ Len(overlayText.lines) = 2
                 /\ distanceMode = "distance" =>
                        /\ PathDistance.distance.den = 1
                        /\ Len(overlayText.lines[1]) = 1
                        /\ FigureShows(overlayText.lines[1][1], PathDistanceSq)
                        /\ Len(overlayText.lines[2]) = 1
                        /\ FigureShows(overlayText.lines[2][1], total * total)
            ELSE /\ ~overlayText.arrow
                 /\ Len(overlayText.lines) = 1
                 /\ distanceMode = "distance" =>
                        /\ Len(overlayText.lines[1]) = 1
                        /\ FigureShows(overlayText.lines[1][1], total * total)

\* at exactly 20 m from the path the overlay has shown both lines
C17_Witness ==
    /\ PathDistanceShown
    /\ distanceMode = "distance"
    /\ ~PathDistance.isNull
    /\ DistIs(PathDistance.distance, 20)
    /\ overlayText.arrow
    /\ Len(overlayText.lines) = 2

\* at 19 m from the path the overlay has shown the total length alone
C17_WitnessOnPath ==
    /\ PathDistanceShown
    /\ ~PathDistance.isNull
    /\ DistIs(PathDistance.distance, 19)
    /\ Len(overlayText.lines) = 1

----------------------------------------------------------------------------
(* Claims about the targets and their markers *)

(* C18: tapping a marker of the scene that is not the active one makes that
   marker's target the active target: afterwards targetCoords[indexActive]
   exists and is the coordinate of the tapped marker, whatever additions and
   rescue-point toggles came before. *)
C18_TapSelectsTappedTarget ==
    [][\A k \in 1..Len(markers) :
          (TapMarker(k) /\ markers[k].i # indexActive) =>
              /\ indexActive' >= 0
              /\ indexActive' < Len(targetCoords')
              /\ targetCoords'[indexActive' + 1].latitude = markers[k].latitude
              /\ targetCoords'[indexActive' + 1].longitude = markers[k].longitude]_vars

(* C19: once the markers of the scene have been created, markers and
   targetCoords correspond index by index after every operation that adds or
   removes a target: they have the same length and markers[k] stands at the
   coordinate of targetCoords[k]. *)
C19_MarkersMatchTargets ==
    Len(markers) > 0 =>
        /\ Len(markers) = Len(targetCoords)
        /\ \A k \in 1..Len(markers) :
               /\ markers[k].latitude = targetCoords[k].latitude
               /\ markers[k].longitude = targetCoords[k].longitude

----------------------------------------------------------------------------
(* Claims about the automatic activation of paths *)

\* the path findNearestPath finds for the fix that has just arrived
NearestAtFix == findNearestPath(pathManager, currentCoords)

(* C20: on a GPS fix, when paths are loaded and the nearest path is less
   than 100 m from the user and is not the active path, that path becomes the
   active path and the GPS handler ends without an error. *)
C20_AutoActivation ==
    [][(/\ lastRun'.handler = "gpsupdate"
        /\ pathManager'.exists
        /\ Len(pathManager'.paths) > 0
        /\ ~NearestAtFix'.isNull
        /\ DistBelow(NearestAtFix'.distance, 100)
        /\ NearestAtFix'.index # activePathIndex)
       => /\ activePathIndex' = NearestAtFix'.index
          /\ lastRun'.error = "none"]_vars

----------------------------------------------------------------------------
(* Claims about the distance functions *)

(* C21: the distance is symmetric, distance(A, B) = distance(B, A), and
   distance(A, A) = 0, for each of computeDistance,
   PathManager.haversineDistance and ARPathNavigationArrow.haversineDistance. *)
C21_HaversineSymmetry ==
    measured.called = "distance" =>
        \A i \in 1..3 :
            /\ measured.there[i] = measured.back[i]
            /\ measured.a = measured.b => measured.there[i] = Dist(0, 1)

\* two different points have been measured in both directions
C21_Witness ==
    /\ measured.called = "distance"
    /\ measured.a # measured.b
    /\ measured.a.latitude # measured.b.latitude
    /\ measured.a.longitude # measured.b.longitude
    /\ \A i \in 1..3 : measured.there[i].sq > 0 /\ measured.back[i].sq > 0

\* a point has been measured against itself
C21_WitnessIdentity ==
    /\ measured.called = "distance"
    /\ measured.a = measured.b
    /\ Len(measured.there) = 3

\* the resolver and getDistanceToPath have both been called for the same
\* position and the same path of at least 2 coordinates
BothMeasured ==
    /\ closestCall.called
    /\ measured.called = "toPath"
    /\ closestCall.userPosition = measured.a
    /\ closestCall.path = measured.path
    /\ Len(measured.path.wgs84Coords) >= 2

(* C30: for every position and every path with at least 2 coordinates,
   PathManager.getDistanceToPath(position, path) equals the distance field of
   the result of ARPathNavigationArrow.findClosestPointOnPath(position, path). *)
C30_DistancesAgree ==
    BothMeasured =>
        /\ ~closestCall.point.isNull
        /\ ~measured.toPath.inf
        /\ SameDistance(measured.toPath, closestCall.point.distance)

\* both have been called for a path of 3 coordinates that the position is not on
C30_Witness ==
    /\ BothMeasured
    /\ Len(measured.path.wgs84Coords) = 3
    /\ ~measured.toPath.inf
    /\ measured.toPath.sq > 0

----------------------------------------------------------------------------
(* Claims about the throttles of the path arrow *)

\* this step is update() of the loaded path arrow with a position and an
\* active path: the call reaches checkDistanceVisibility()
DistanceCheckRuns ==
    /\ PA_Update
    /\ pathArrow.arrowObject
    /\ ~currentCoords.isNull
    /\ isPathActive(pathManager, activePathIndex)

(* C22: checkDistanceVisibility re-checks the distance to the path at most
   once per 500 ms: a call made less than 500 ms after the previous re-check
   leaves isHiddenByDistance, lastKnownDistance and lastDistanceCheck as they
   were and makes the arrow as visible as the cached flag says, and a
   re-check happens only 500 ms or more after the previous one; the 50 ms
   throttle of the angle plays no part in it. *)
C22_DistanceCheckThrottle ==
    [][DistanceCheckRuns =>
          /\ now - pathArrow.lastDistanceCheck < 500 =>
                 /\ pathArrow'.isHiddenByDistance = pathArrow.isHiddenByDistance
                 /\ pathArrow'.lastKnownDistance = pathArrow.lastKnownDistance
                 /\ pathArrow'.lastDistanceCheck = pathArrow.lastDistanceCheck
                 /\ pathArrow'.visible = ~pathArrow.isHiddenByDistance
          /\ pathArrow'.lastDistanceCheck # pathArrow.lastDistanceCheck =>
                 /\ now - pathArrow.lastDistanceCheck >= 500
                 /\ pathArrow'.lastDistanceCheck = now]_vars

\* update() has applied an angle at a time when the distance re-check was
\* throttled, at a position other than that of the last re-check
C22_Witness ==
    /\ pathArrow.lastUpdate = now
    /\ pathArrow.lastDistanceCheck >= StartTime
    /\ pathArrow.lastDistanceCheck < now
    /\ now - pathArrow.lastDistanceCheck < 500
    /\ ~PathDistance.isNull
    /\ ~SameDistance(PathDistance.distance, pathArrow.lastKnownDistance)

\* this step is an update() call of the path arrow that passes the time
\* check and computes closest point and relative angle
PathArrowReevaluates == PA_Update /\ evaluatedAt' = now /\ PathUpdateRuns

(* C23 as stated: between any two update() calls that pass the time check
   and recompute target, closest point and relative angle, at least 50 ms
   elapse, also when the change computed before was within the angle
   threshold and was not applied. *)
C23_EvaluationsApart ==
    [][(PathArrowReevaluates /\ evaluatedAt >= StartTime) => now - evaluatedAt >= 50]_vars

(* C23, amended: the interval of 50 ms is measured from the last applied
   rotation: an update() call passes the time check and recomputes only 50 ms
   or more after lastUpdate, the time of the last applied rotation, and a
   computation whose change is within the angle threshold leaves lastUpdate
   as it was, so that the calls after it recompute without waiting. *)
C23_EvaluationAfterApplied ==
    [][PathArrowReevaluates =>
          /\ now - pathArrow.lastUpdate >= 50
          /\ Abs(PathAngle - pathArrow.lastAngle) <= 2 =>
                 pathArrow'.lastUpdate = pathArrow.lastUpdate]_vars

\* update() has recomputed 50 ms or more after a rotation was applied, and
\* has not applied the new angle
C23_Witness ==
    /\ evaluatedAt = now
    /\ pathArrow.lastUpdate >= StartTime
    /\ now - pathArrow.lastUpdate >= 50

----------------------------------------------------------------------------
(* Claims about the list of targets *)

\* no two entries of the list are nearer than 0.000001 degrees in latitude
\* and in longitude, which on the grid means that they are the same point
NoDuplicateTargets(tc) ==
    \A j, k \in 1..Len(tc) :
        j < k => ~(tc[j].latitude = tc[k].latitude /\ tc[j].longitude = tc[k].longitude)

(* C24: after any sequence of manual additions, path-endpoint additions and
   rescue-point loads, targetCoords holds no two entries at the same place
   (nearer than 0.000001 degrees in both coordinates), and a manual addition
   at the place of an entry leaves targetCoords unchanged. *)
C24_NoDuplicateTargets ==
    [][/\ NoDuplicateTargets(targetCoords')
       /\ \A p \in TargetInputs :
              (/\ BtnAdd(p[1], p[2])
               /\ \E k \in 1..Len(targetCoords) :
                      /\ targetCoords[k].longitude = p[1]
                      /\ targetCoords[k].latitude = p[2])
              => targetCoords' = targetCoords]_vars

\* the route that ends at (0, 2) is loaded and the list holds the target
\* (0, 2) once, followed by another target: one of the two additions at
\* (0, 2) was turned down
C24_Witness ==
    /\ pathManager = PathManagerWith(<<RoutePath>>)
    /\ Len(targetCoords) = 2
    /\ targetCoords[1] = Target(0, 2, "target")
    /\ targetCoords[2] = Target(30, 2, "target")

\* a GPS fix on which onGpsUpdate adds the compass, the arrow and the markers
InitialCreation ==
    /\ \E pos \in Fixes : OnGpsUpdate(pos)
    /\ Len(targetCoords) > 0
    /\ Len(markers) = 0

(* C25: onGpsUpdate performs the initial creation (addCompass, addArrow,
   addAllMarkers, setActive(0)) on at most one GPS fix: a fix that creates
   the elements finds no navigation arrow yet, and once the arrow exists the
   list of markers is never empty again, whatever additions and rescue-point
   show/hide operations come between the fixes. *)
C25_CreatedOnce ==
    [][/\ InitialCreation => ~arrow.exists /\ arrow'.exists
       /\ arrow.exists => Len(markers') > 0 /\ arrow'.exists]_vars

\* a fix arrives after the creation, after rescue points have been shown
\* and hidden again and have left a marker behind
C25_Witness ==
    /\ arrow.exists
    /\ lastRun.handler = "gpsupdate"
    /\ ~rescueChecked
    /\ \E k \in 1..Len(markers) : markers[k].i >= Len(targetCoords)

\* the entry of the list the active index points at is there
ActiveListed(tc, index) == index >= 0 /\ index < Len(tc)

\* hideRescuePoints() runs
HideRuns == ToggleRescuePoints /\ rescueChecked

(* C26: when hideRescuePoints runs while the active target is not a rescue
   point, targetCoords[indexActive] has the same coordinates after the call
   as before it, wherever the removed rescue points stood in the list. *)
C26_HideKeepsActive ==
    [][(/\ HideRuns
        /\ ActiveListed(targetCoords, indexActive)
        /\ targetCoords[indexActive + 1].markerType # "rescue")
       => /\ ActiveListed(targetCoords', indexActive')
          /\ targetCoords'[indexActive' + 1].latitude = targetCoords[indexActive + 1].latitude
          /\ targetCoords'[indexActive' + 1].longitude = targetCoords[indexActive + 1].longitude]_vars

(* C27: once AR mode is running, 0 <= indexActive < targetCoords.length in
   every reachable state, after any sequence of AR-marker taps, map-marker
   taps, marker additions and rescue-point show/hide operations. *)
C27_ActiveIndexValid ==
    arStarted => ActiveListed(targetCoords, indexActive)

----------------------------------------------------------------------------
(* Claims that join the arrows with the rest of the guidance *)

(* C28: after every update() call made at least 50 ms after the last applied
   rotation, with the arrow model loaded, a known position and a valid
   visible target, lastAngle differs from the relative angle computed in
   that call by at most 2 degrees.  Stated for the marker arrow and for the
   path arrow. *)
C28_BoundedStaleness ==
    [][/\ (MarkerUpdateRuns /\ now - arrow.lastUpdate >= 50) =>
            Abs(arrow'.lastAngle
                - MarkerAngle(currentCoords', targetCoords', indexActive', userHeading')) <= 2
       /\ (/\ PathUpdateRuns
           /\ now - pathArrow.lastUpdate >= 50
           /\ ~pathArrow'.isHiddenByDistance) =>
            Abs(pathArrow'.lastAngle - PathAngle) <= 2]_vars

\* a render tick 50 ms or more after the last applied rotation has just
\* turned the marker arrow by more than 90 degrees
C28_Witness ==
    /\ lastRun.handler = "animate"
    /\ arrow.arrowObject
    /\ ~currentCoords.isNull
    /\ TargetAvailable(targetCoords, indexActive)
    /\ arrow.lastUpdate = now
    /\ now - StartTime >= 50
    /\ arrow.lastAngle = MarkerAngle(currentCoords, targetCoords, indexActive, userHeading)
    /\ Abs(arrow.lastAngle) > 90

\* what getPathDistanceInfo() reports for the current position
PathInfoNow == getPathDistanceInfo(currentCoords, pathManager, activePathIndex)

(* C29 as stated: in every reachable state with an active path and a known
   position, the path arrow is hidden by proximity only if
   getPathDistanceInfo reports isOnPath = true for the current position. *)
C29_HiddenOnlyOnPath ==
    (/\ isPathActive(pathManager, activePathIndex)
     /\ ~currentCoords.isNull
     /\ pathArrow.isHiddenByDistance)
    => (~PathInfoNow.isNull /\ PathInfoNow.isOnPath)

(* C29 amended: the path arrow is hidden by proximity only if the distance
   found at its last distance re-check was at most 25 m (hideDistance plus
   the hysteresis margin); it can stay hidden while getPathDistanceInfo
   reports isOnPath = false for the current position. *)
C29_HiddenWithinShowThreshold ==
    pathArrow.isHiddenByDistance
    => (/\ ~pathArrow.lastKnownDistance.inf
        /\ ~DistAbove(pathArrow.lastKnownDistance, hideDistance + hysteresisMargin))

\* the arrow is hidden after a re-check that found more than 20 m, and the
\* overlay would report the position as off the path
C29_Witness ==
    /\ isPathActive(pathManager, activePathIndex)
    /\ ~currentCoords.isNull
    /\ pathArrow.isHiddenByDistance
    /\ DistAbove(pathArrow.lastKnownDistance, hideDistance)
    /\ ~PathInfoNow.isNull
    /\ ~PathInfoNow.isOnPath

====
